---- MODULE Spec2Model ----
(***************************************************************************)
(* Model of src/jenkins_plugin_downloader.py: the JenkinsPluginDownloader  *)
(* class (catalog, dependency resolver, mirror selector, download engine,  *)
(* orchestrator).  Python values are modelled as follows: a dict is a      *)
(* function, a list is a sequence, None is the string "None", a raised     *)
(* exception is the name of its kind.                                      *)
(***************************************************************************)
EXTENDS Integers, Sequences, FiniteSets, TLC

\* ------------------------------------------------------------------ bounds
\* Deepest nesting of get_plugin_dependencies frames the interpreter allows
\* before it raises RecursionError (CPython: 1000 frames; scaled down).
RecursionLimit == 4
\* Largest number of body bytes a simulated server sends in one response.
MaxBody == 1024
\* Largest number of whole seconds between a chunk and the last speed check.
MaxElapsed == 2
\* Streaming attempts explored for one artifact (the loop itself is unbounded).
MaxAttempts == 5

\* --------------------------------------------------------- program constants
MIRROR_URLS == << "https://mirrors.tuna.tsinghua.edu.cn/jenkins/plugins",
                  "https://mirrors.aliyun.com/jenkins/plugins",
                  "https://updates.jenkins.io/download/plugins",
                  "https://mirrors.jenkins.io/plugins" >>
NumMirrors == Len(MIRROR_URLS)
\* chunk_size of response.iter_content
ChunkSize == 1024
\* speed threshold, bytes per second
SlowSpeed == 1024
\* seconds between two speed checks
SpeedCheckInterval == 1

None == "None"

\* ------------------------------------------------------------------ inputs
Ids == {"A", "B", "C"}
IdOrder == <<"A", "B", "C">>
LatestVersion == [n \in Ids |-> IF n = "A" THEN "1.0" ELSE IF n = "B" THEN "2.0" ELSE "3.0"]
PinnedVersions == {None, "0.9"}

Range(s) == {s[i] : i \in DOMAIN s}

\* A DependencyRef of the update-center JSON: kind "req" carries
\* optional=false, "opt" optional=true, "plain" has no "optional" key.
DepRef(n, kind) ==
    IF kind = "plain" THEN [name |-> n]
    ELSE [name |-> n, optional |-> (kind = "opt")]

RECURSIVE DepList(_, _)
\* the "dependencies" list of one plugin: one DependencyRef for every target
\* whose kind is not "none", in IdOrder
DepList(f, k) ==
    IF k > Len(IdOrder) THEN <<>>
    ELSE IF IdOrder[k] \in DOMAIN f /\ f[IdOrder[k]] # "none"
         THEN <<DepRef(IdOrder[k], f[IdOrder[k]])>> \o DepList(f, k + 1)
         ELSE DepList(f, k + 1)

\* A PluginRecord: kind "nokey" is an entry without a "dependencies" key.
PluginRecord(n, e) ==
    IF e.kind = "nokey" THEN [version |-> LatestVersion[n]]
    ELSE [version |-> LatestVersion[n], dependencies |-> DepList(e.edges, 1)]

EdgeKinds == {"none", "req", "opt", "plain"}
NoEdges == [m \in Ids |-> "none"]
\* the shapes of the entry of plugin n: not listed, listed without a
\* dependency list, listed with at most one edge to every other plugin
Entries(n) ==
    {[kind |-> "absent", edges |-> NoEdges], [kind |-> "nokey", edges |-> NoEdges]}
    \cup {[kind |-> "deps", edges |-> f] : f \in {g \in [Ids -> EdgeKinds] : g[n] = "none"}}

\* the "plugins" mapping described by one entry per identifier
MakeCatalog(c) ==
    [n \in {m \in Ids : c[m].kind # "absent"} |-> PluginRecord(n, c[n])]

\* every catalog over Ids with at most one edge between two plugins
AllCatalogs ==
    {MakeCatalog(c) : c \in {d \in [Ids -> UNION {Entries(n) : n \in Ids}] :
                                \A n \in Ids : d[n] \in Entries(n)}}

Absent == [kind |-> "absent", edges |-> NoEdges]
NoKey == [kind |-> "nokey", edges |-> NoEdges]
Deps(f) == [kind |-> "deps", edges |-> f @@ NoEdges]

EmptyCatalog == MakeCatalog([n \in Ids |-> Absent])
\* the end-to-end catalog of the specification: A -> B required, A -> C optional
CatalogE2E ==
    MakeCatalog("A" :> Deps("B" :> "req" @@ "C" :> "opt")
                @@ "B" :> Deps(NoEdges) @@ "C" :> Absent)
\* A -> B -> C, all required
CatalogChain ==
    MakeCatalog("A" :> Deps("B" :> "plain") @@ "B" :> Deps("C" :> "req") @@ "C" :> NoKey)
\* A -> B, B -> A
CatalogCycle ==
    MakeCatalog("A" :> Deps("B" :> "req") @@ "B" :> Deps("A" :> "req") @@ "C" :> NoKey)
\* A requires C, which the catalog does not list; B -> A optional
CatalogMissing ==
    MakeCatalog("A" :> Deps("C" :> "req") @@ "B" :> Deps("A" :> "opt") @@ "C" :> Absent)
\* what the update center may answer
Catalogs == {EmptyCatalog, CatalogE2E, CatalogChain, CatalogCycle, CatalogMissing}

VARIABLES
    plugins_data,           \* self.plugins_data
    downloaded_plugins,     \* self.downloaded_plugins
    current_mirror_index,   \* self.current_mirror_index
    files,                  \* the output files, one per plugin identifier
    pc,                     \* where the running call stands
    call,                   \* frame of download_plugin
    dl,                     \* frame of _download_single_plugin
    outcome,                \* how the last download_plugin call ended
    request,                \* URL of the last artifact request of the call
    art,                    \* observation: attempts made for the artifact in flight
    event,                  \* observation: what the last step did
    switch,                 \* observation: _try_next_mirror calls of the last step
    adv_log,                \* observation: the last NumMirrors _try_next_mirror calls
    catalog_fetch,          \* observation: fetch_update_center calls
    resolved                \* last result of a direct get_plugin_dependencies call

vars == <<plugins_data, downloaded_plugins, current_mirror_index, files, pc, call, dl,
          outcome, request, art, event, switch, adv_log, catalog_fetch, resolved>>

\* ---------------------------------------------------- dependency resolver
RecursionError == [err |-> TRUE, val |-> <<>>]
Returns(list) == [err |-> FALSE, val |-> list]

RECURSIVE ListOrders(_)
\* list(set(...)): the lists it may return, one element per distinct value
\* in any order (the iteration order of a set of str depends on the
\* per-process hash seed)
ListOrders(S) ==
    IF S = {} THEN {<<>>}
    ELSE UNION {{<<x>> \o p : p \in ListOrders(S \ {x})} : x \in S}

\* a resolver that follows optional edges as well
IsOptionalIgnored(dep) == FALSE

\* a resolver that takes the presence of the "optional" key for its value
IsOptionalKeyPresent(dep) == "optional" \in DOMAIN dep

\* dep.get("optional", False)
IsOptional(dep) == IF "optional" \in DOMAIN dep THEN dep.optional ELSE FALSE

\* a resolver that fails on an identifier the catalog does not list
AbsentResultFails == RecursionError

\* lines 37-38: an identifier the catalog does not list has no dependencies
AbsentResult == Returns(<<>>)

RECURSIVE get_plugin_dependencies(_, _, _)
RECURSIVE CollectDependencies(_, _, _, _, _)

\* the for loop of get_plugin_dependencies over plugin["dependencies"],
\* from position k on, with the list built so far: the outcomes it may have
CollectDependencies(data, deplist, k, dependencies, depth) ==
    IF k > Len(deplist) THEN {Returns(dependencies)}
    ELSE IF IsOptional(deplist[k])
         THEN CollectDependencies(data, deplist, k + 1, dependencies, depth)
         ELSE LET dep_name == deplist[k].name
              IN UNION {IF sub.err THEN {RecursionError}
                        ELSE CollectDependencies(data, deplist, k + 1,
                                 Append(dependencies, dep_name) \o sub.val, depth)
                        : sub \in get_plugin_dependencies(data, dep_name, depth + 1)}

\* get_plugin_dependencies(plugin_name) over the catalog data, called at
\* nesting depth `depth`: the outcomes the call may have (the order of a
\* returned list is the order list(set(...)) gives it)
get_plugin_dependencies(data, plugin_name, depth) ==
    IF depth > RecursionLimit THEN {RecursionError}
    ELSE IF plugin_name \notin DOMAIN data THEN {AbsentResult}
    ELSE LET plugin == data[plugin_name]
             collected ==
                 IF "dependencies" \in DOMAIN plugin
                 THEN CollectDependencies(data, plugin.dependencies, 1, <<>>, depth)
                 ELSE {Returns(<<>>)}
         IN UNION {IF dependencies.err THEN {RecursionError}
                   ELSE {Returns(list) : list \in ListOrders(Range(dependencies.val))}
                   : dependencies \in collected}

NoResolve == [root |-> None, err |-> FALSE, val |-> <<>>]

\* ------------------------------------------------------- initial state
\* frame of a call: the arguments (pinned is the version argument), the
\* locals, and observations (before: DownloadedSet at entry; fetched: the
\* identifiers the engine was started for; repeat: the call repeats the
\* previous, successful call for the same root)
NoCall == [plugin_name |-> None, pinned |-> None, version |-> None,
           dependencies |-> <<>>, i |-> 0, phase |-> "none",
           before |-> {}, fetched |-> <<>>, repeat |-> FALSE]
\* populated: a fetch_update_center call has succeeded; step: what the last
\* step did to the update center ("none", "ok", "failed")
NoCatalogFetch == [populated |-> FALSE, step |-> "none"]
NoDl == [plugin_name |-> None, version |-> None, content_length |-> <<>>,
         total_size |-> 0, downloaded_size |-> 0, last_downloaded |-> 0]
NoArt == [attempts |-> 0, start_index |-> 0, tried |-> {}]
NoEvent == [kind |-> "none", name |-> None, result |-> "none"]
NoSwitch == [cause |-> "none", calls |-> <<>>]
\* The content of an output file, by who wrote it: `old` bytes written
\* before the current attempt opened the file, `new` bytes written since.
EmptyFile == [old |-> 0, new |-> 0]

\* __init__
Init ==
    /\ plugins_data = EmptyCatalog
    /\ downloaded_plugins = {}
    /\ current_mirror_index = 0
    /\ files = [n \in Ids |-> EmptyFile]
    /\ pc = "idle"
    /\ call = NoCall
    /\ dl = NoDl
    /\ outcome = "none"
    /\ request = <<>>
    /\ art = NoArt
    /\ event = NoEvent
    /\ switch = NoSwitch
    /\ adv_log = <<>>
    /\ catalog_fetch = NoCatalogFetch
    /\ resolved = NoResolve

\* a step that does not call fetch_update_center
NoFetchStep == catalog_fetch' = [catalog_fetch EXCEPT !.step = "none"]

\* --------------------------------------------------------- mirror selector
\* _get_download_url: base, plugin directory, version directory, file name
get_download_url(index, plugin_name, version) ==
    <<MIRROR_URLS[index + 1], plugin_name, version, plugin_name, ".hpi">>

\* a selector that skips a mirror when it advances
NextMirrorIndexSkips(index) == (index + 2) % NumMirrors

\* the index _try_next_mirror moves to
NextMirrorIndex(index) == (index + 1) % NumMirrors

\* a selector that reports exhaustion one mirror early
MirrorsRemainOffByOne(new_index) == new_index # NumMirrors - 1

\* the value _try_next_mirror returns once the index is new_index
MirrorsRemain(new_index) == new_index # 0

\* _try_next_mirror from the given index: the new index and the return value
try_next_mirror(index) ==
    [old |-> index, new |-> NextMirrorIndex(index),
     ret |-> MirrorsRemain(NextMirrorIndex(index))]

LastCalls(log) ==
    IF Len(log) <= NumMirrors THEN log
    ELSE SubSeq(log, Len(log) - NumMirrors + 1, Len(log))

\* a step that does not touch the mirror selector
NoMirrorSwitch ==
    /\ switch' = NoSwitch
    /\ UNCHANGED <<current_mirror_index, adv_log>>

\* ------------------------------------------------------------ orchestrator
\* a downloader that fetches the catalog on every call
FetchAlways(data) == TRUE

\* `not self.plugins_data`, line 55
FetchNeeded(data) == DOMAIN data = {}

\* the call repeats the previous call, which returned normally
RepeatsLastCall(plugin_name) ==
    pc = "idle" /\ outcome = "ok" /\ call.phase = "done" /\ call.plugin_name = plugin_name

\* download_plugin, lines 55-56, when fetch_update_center raises (no
\* connection, no "updateCenter.post(" wrapper, invalid JSON, no "plugins")
download_plugin_fetch_fails(plugin_name, version) ==
    /\ pc = "idle"
    /\ FetchNeeded(plugins_data)
    /\ outcome' = "CatalogFetchError"
    /\ call' = [NoCall EXCEPT !.plugin_name = plugin_name, !.pinned = version,
                              !.version = version, !.before = downloaded_plugins]
    /\ catalog_fetch' = [catalog_fetch EXCEPT !.step = "failed"]
    /\ event' = [kind |-> "call", name |-> plugin_name, result |-> "raised"]
    /\ dl' = NoDl /\ art' = NoArt /\ request' = <<>>
    /\ NoMirrorSwitch
    /\ UNCHANGED <<plugins_data, downloaded_plugins, files, pc, resolved>>

\* lines 61-63: the version of the root, the argument if one was given and
\* the catalog's otherwise
RootVersion(data, plugin_name, version) ==
    IF version = None THEN data[plugin_name].version ELSE version

\* download_plugin, lines 55-76: catalog fetch if the catalog is empty (the
\* update center answers `answer`), lookup of the root, resolution
download_plugin(plugin_name, version, answer) ==
    /\ pc = "idle"
    /\ answer \in (IF FetchNeeded(plugins_data) THEN Catalogs ELSE {plugins_data})
    /\ plugins_data' = answer
    /\ catalog_fetch' = IF FetchNeeded(plugins_data)
                        THEN [populated |-> TRUE, step |-> "ok"]
                        ELSE [catalog_fetch EXCEPT !.step = "none"]
    /\ LET frame == [NoCall EXCEPT !.plugin_name = plugin_name,
                                   !.pinned = version,
                                   !.before = downloaded_plugins,
                                   !.repeat = RepeatsLastCall(plugin_name)]
       IN IF plugin_name \notin DOMAIN answer
          THEN /\ outcome' = "ValueError"
               /\ call' = [frame EXCEPT !.version = version]
               /\ pc' = "idle"
               /\ event' = [kind |-> "call", name |-> plugin_name, result |-> "raised"]
          ELSE \E deps \in get_plugin_dependencies(answer, plugin_name, 1) :
                 \* lines 61-63 have set the local version before line 66 resolves
                 IF deps.err
                 THEN /\ outcome' = "RecursionError"
                      /\ call' = [frame EXCEPT !.version = RootVersion(answer, plugin_name, version)]
                      /\ pc' = "idle"
                      /\ event' = [kind |-> "call", name |-> plugin_name, result |-> "raised"]
                 ELSE /\ outcome' = "running"
                      /\ call' = [frame EXCEPT
                                    !.version = RootVersion(answer, plugin_name, version),
                                    !.dependencies = deps.val, !.i = 1, !.phase = "deps"]
                      /\ pc' = "deps"
                      /\ event' = [kind |-> "call", name |-> plugin_name, result |-> "resolved"]
    /\ dl' = NoDl /\ art' = NoArt /\ request' = <<>>
    /\ NoMirrorSwitch
    /\ UNCHANGED <<downloaded_plugins, files, resolved>>

\* an orchestrator that downloads the root only
NeedsDownloadRootOnly(plugin_name) ==
    plugin_name \notin downloaded_plugins /\ plugin_name = call.plugin_name

\* `dep not in self.downloaded_plugins`, line 79 (and line 84 for the root)
NeedsDownload(plugin_name) == plugin_name \notin downloaded_plugins

\* an engine that does not look at DownloadedSet
AlreadyDownloadedNever(plugin_name) == FALSE

\* `plugin_name in self.downloaded_plugins`, line 100
AlreadyDownloaded(plugin_name) == plugin_name \in downloaded_plugins

\* an orchestrator that leaves the loop before its first iteration
LoopDoneAtOnce(frame) == TRUE

\* the for loop of lines 78-81 has run through the list
LoopDone(frame) == frame.i > Len(frame.dependencies)

\* a loop that passes the pinned version of the root on to the dependencies
DependencyVersionPinned(frame) == frame.pinned

\* the version argument of the call of line 80: none
DependencyVersion(frame) == None

\* _download_single_plugin, lines 100-107: entry of the engine for one
\* artifact, called from download_plugin whose frame is `frame`
download_single_plugin(frame, plugin_name, version) ==
    IF AlreadyDownloaded(plugin_name)
    THEN \* line 101: return
         /\ IF frame.phase = "deps"
            THEN /\ pc' = "deps"
                 /\ call' = [frame EXCEPT !.i = @ + 1]
                 /\ outcome' = outcome
            ELSE /\ pc' = "idle"
                 /\ call' = [frame EXCEPT !.phase = IF @ = "single" THEN @ ELSE "done"]
                 /\ outcome' = "ok"
         /\ event' = [kind |-> "enter", name |-> plugin_name, result |-> "noop"]
         /\ IF frame.phase = "single"
            THEN dl' = NoDl /\ art' = NoArt
            ELSE UNCHANGED <<dl, art>>
    ELSE IF plugin_name \notin DOMAIN plugins_data
    THEN \* line 103: KeyError
         /\ pc' = "idle"
         /\ outcome' = "KeyError"
         /\ call' = frame
         /\ event' = [kind |-> "enter", name |-> plugin_name, result |-> "raised"]
         /\ IF frame.phase = "single"
            THEN dl' = NoDl /\ art' = NoArt
            ELSE UNCHANGED <<dl, art>>
    ELSE /\ pc' = "request"
         /\ outcome' = outcome
         /\ call' = [frame EXCEPT !.fetched = Append(@, plugin_name)]
         /\ dl' = [NoDl EXCEPT !.plugin_name = plugin_name,
                               !.version = IF version = None
                                           THEN plugins_data[plugin_name].version
                                           ELSE version]
         /\ art' = [attempts |-> 0, start_index |-> current_mirror_index, tried |-> {}]
         /\ event' = [kind |-> "enter", name |-> plugin_name, result |-> "started"]

\* _download_single_plugin called on its own, lines 98-107, for an
\* identifier of DownloadedSet (which download_plugin never passes)
single_plugin_call(plugin_name, version) ==
    /\ pc = "idle"
    /\ plugin_name \in downloaded_plugins
    /\ request' = <<>>
    /\ download_single_plugin([NoCall EXCEPT !.phase = "single", !.pinned = version,
                                             !.before = downloaded_plugins],
                              plugin_name, version)
    /\ NoMirrorSwitch
    /\ NoFetchStep
    /\ UNCHANGED <<plugins_data, downloaded_plugins, files, resolved>>

\* download_plugin, lines 78-81: one iteration of the loop over dependencies
dependency_step ==
    /\ pc = "deps"
    /\ ~LoopDone(call)
    /\ LET dep == call.dependencies[call.i]
       IN IF NeedsDownload(dep)
          THEN download_single_plugin(call, dep, DependencyVersion(call))
          ELSE /\ call' = [call EXCEPT !.i = @ + 1]
               /\ event' = [kind |-> "skip", name |-> dep, result |-> "noop"]
               /\ UNCHANGED <<pc, outcome, dl, art>>
    /\ NoMirrorSwitch
    /\ NoFetchStep
    /\ UNCHANGED <<plugins_data, downloaded_plugins, files, request, resolved>>

\* download_plugin, lines 84-86: the root, after the loop
main_plugin_step ==
    /\ pc = "deps"
    /\ LoopDone(call)
    /\ IF NeedsDownload(call.plugin_name)
       THEN download_single_plugin([call EXCEPT !.phase = "main"],
                                   call.plugin_name, call.version)
       ELSE /\ pc' = "idle"
            /\ outcome' = "ok"
            /\ call' = [call EXCEPT !.phase = "done"]
            /\ event' = [kind |-> "skip", name |-> call.plugin_name, result |-> "noop"]
            /\ UNCHANGED <<dl, art>>
    /\ NoMirrorSwitch
    /\ NoFetchStep
    /\ UNCHANGED <<plugins_data, downloaded_plugins, files, request, resolved>>

\* --------------------------------------------------------- download engine
\* response.headers.get('content-length', 0) as int: a response carries the
\* header (<<n>>) or not (<<>>)
ContentLength(header) == IF header = <<>> THEN 0 ELSE header[1]
Headers == {<<>>, <<0>>, <<ChunkSize>>}

\* lengths of the chunks iter_content(chunk_size=1024) yields
ChunkLens == {ChunkSize \div 2, ChunkSize}

\* line 136: a speed check is due
CheckDue(elapsed) == elapsed >= SpeedCheckInterval

\* lines 137-138: bytes / elapsed < 1024, for elapsed > 0
TooSlow(bytes, elapsed) == bytes < SlowSpeed * elapsed

\* line 146
SizesMatch(downloaded_size, total_size) == downloaded_size = total_size

\* f.write(data) of n bytes
WriteFile(f, n) == [f EXCEPT !.new = @ + n]

\* open(output_path, 'wb') truncates whatever the file held
OpenTruncate(f) == EmptyFile

\* line 154 and the return into download_plugin
Completed ==
    /\ downloaded_plugins' = downloaded_plugins \cup {dl.plugin_name}
    /\ IF call.phase = "deps"
       THEN /\ pc' = "deps"
            /\ call' = [call EXCEPT !.i = @ + 1]
            /\ outcome' = outcome
       ELSE /\ pc' = "idle"
            /\ call' = [call EXCEPT !.phase = IF @ = "single" THEN @ ELSE "done"]
            /\ outcome' = "ok"

\* next iteration of `while True`
Retry ==
    /\ pc' = "request"
    /\ UNCHANGED <<downloaded_plugins, call, outcome>>

\* the Exception of line 152 leaves _download_single_plugin and download_plugin
Raise ==
    /\ pc' = "idle"
    /\ outcome' = "DownloadError"
    /\ UNCHANGED <<downloaded_plugins, call>>

\* lines 146-147, after the `with` block
AfterStream(kind, downloaded_size) ==
    IF SizesMatch(downloaded_size, dl.total_size)
    THEN /\ Completed
         /\ event' = [kind |-> kind, name |-> dl.plugin_name, result |-> "completed"]
    ELSE /\ Retry
         /\ event' = [kind |-> kind, name |-> dl.plugin_name, result |-> "retry"]

\* lines 149-152: the except block, entered with the mirror index `index`
\* after the _try_next_mirror calls `earlier` of the same step
ExceptHandler(kind, cause, index, earlier) ==
    LET r == try_next_mirror(index)
        calls == Append(earlier, r)
    IN /\ current_mirror_index' = r.new
       /\ switch' = [cause |-> cause, calls |-> calls]
       /\ adv_log' = LastCalls(adv_log \o calls)
       /\ IF r.ret
          THEN /\ Retry
               /\ event' = [kind |-> kind, name |-> dl.plugin_name, result |-> "retry"]
          ELSE /\ Raise
               /\ event' = [kind |-> kind, name |-> dl.plugin_name, result |-> "exhausted"]

\* lines 111-113 of one attempt
StartAttempt ==
    /\ pc = "request"
    /\ art.attempts < MaxAttempts
    /\ request' = get_download_url(current_mirror_index, dl.plugin_name, dl.version)
    /\ art' = [art EXCEPT !.attempts = @ + 1,
                          !.tried = @ \cup {current_mirror_index}]

\* lines 111-113: the request fails (connection error, or raise_for_status on
\* a non-success status)
request_fails ==
    /\ StartAttempt
    /\ ExceptHandler("hard", "hard", current_mirror_index, <<>>)
    /\ NoFetchStep
    /\ UNCHANGED <<plugins_data, files, dl, resolved>>

\* lines 111-121: the request succeeds with the given content-length header;
\* the counters are reset and the output file is opened for writing
request_succeeds(header) ==
    /\ StartAttempt
    /\ dl' = [dl EXCEPT !.content_length = header,
                        !.total_size = ContentLength(header),
                        !.downloaded_size = 0,
                        !.last_downloaded = 0]
    /\ files' = [files EXCEPT ![dl.plugin_name] = OpenTruncate(@)]
    /\ pc' = "stream"
    /\ event' = [kind |-> "response", name |-> dl.plugin_name, result |-> "streaming"]
    /\ NoMirrorSwitch
    /\ NoFetchStep
    /\ UNCHANGED <<plugins_data, downloaded_plugins, call, outcome, resolved>>

\* lines 129-144: a chunk of n bytes arrives `elapsed` whole seconds after
\* the last speed check, and the speed check (if due) passes
chunk_received(n, elapsed) ==
    /\ pc = "stream"
    /\ dl.downloaded_size + n <= MaxBody
    /\ LET downloaded_size == dl.downloaded_size + n
       IN /\ ~(CheckDue(elapsed) /\ TooSlow(downloaded_size - dl.last_downloaded, elapsed))
          /\ dl' = [dl EXCEPT !.downloaded_size = downloaded_size,
                              !.last_downloaded = IF CheckDue(elapsed)
                                                  THEN downloaded_size ELSE @]
    /\ files' = [files EXCEPT ![dl.plugin_name] = WriteFile(@, n)]
    /\ event' = [kind |-> "chunk", name |-> dl.plugin_name, result |-> "streaming"]
    /\ NoMirrorSwitch
    /\ NoFetchStep
    /\ UNCHANGED <<plugins_data, downloaded_plugins, pc, call, outcome, request, art,
                   resolved>>

\* lines 129-152: a chunk of n bytes arrives and the speed check finds the
\* transfer too slow
chunk_slow(n, elapsed) ==
    /\ pc = "stream"
    /\ dl.downloaded_size + n <= MaxBody
    /\ LET downloaded_size == dl.downloaded_size + n
           r == try_next_mirror(current_mirror_index)
       IN /\ CheckDue(elapsed)
          /\ TooSlow(downloaded_size - dl.last_downloaded, elapsed)
          /\ dl' = [dl EXCEPT !.downloaded_size = downloaded_size]
          /\ IF r.ret
             THEN \* line 142: break, then lines 146-147
                  /\ current_mirror_index' = r.new
                  /\ switch' = [cause |-> "speed", calls |-> <<r>>]
                  /\ adv_log' = LastCalls(Append(adv_log, r))
                  /\ AfterStream("slow", downloaded_size)
             ELSE \* line 141: the Exception is raised inside the try block
                  ExceptHandler("slow", "speed", r.new, <<r>>)
    /\ files' = [files EXCEPT ![dl.plugin_name] = WriteFile(@, n)]
    /\ NoFetchStep
    /\ UNCHANGED <<plugins_data, request, art, resolved>>

\* line 129: the body ends, then lines 146-147
stream_ends ==
    /\ pc = "stream"
    /\ AfterStream("end", dl.downloaded_size)
    /\ NoMirrorSwitch
    /\ NoFetchStep
    /\ UNCHANGED <<plugins_data, files, dl, request, art, resolved>>

\* line 129 or 132: reading the body or writing the file raises
stream_fails ==
    /\ pc = "stream"
    /\ ExceptHandler("error", "hard", current_mirror_index, <<>>)
    /\ NoFetchStep
    /\ UNCHANGED <<plugins_data, files, dl, request, art, resolved>>

Next ==
    \/ \E plugin_name \in Ids, version \in PinnedVersions :
          download_plugin_fetch_fails(plugin_name, version)
    \/ \E plugin_name \in Ids, version \in PinnedVersions, answer \in Catalogs :
          download_plugin(plugin_name, version, answer)
    \/ \E plugin_name \in Ids, version \in PinnedVersions :
          single_plugin_call(plugin_name, version)
    \/ dependency_step
    \/ main_plugin_step
    \/ request_fails
    \/ \E header \in Headers : request_succeeds(header)
    \/ \E n \in ChunkLens, elapsed \in 0..MaxElapsed : chunk_received(n, elapsed)
    \/ \E n \in ChunkLens, elapsed \in 0..MaxElapsed : chunk_slow(n, elapsed)
    \/ stream_ends
    \/ stream_fails

Spec == Init /\ [][Next]_vars

\* ------------------------------------------------- the resolver on its own
\* a direct call resolve(root) on the populated catalog
Resolve(root) ==
    /\ \E r \in get_plugin_dependencies(plugins_data, root, 1) :
         resolved' = [root |-> root, err |-> r.err, val |-> r.val]
    /\ UNCHANGED <<plugins_data, downloaded_plugins, current_mirror_index, files, pc,
                   call, dl, outcome, request, art, event, switch, adv_log,
                   catalog_fetch>>

\* a process whose catalog has been populated with at least one plugin
InitResolve ==
    /\ plugins_data \in AllCatalogs \ {EmptyCatalog}
    /\ downloaded_plugins = {}
    /\ current_mirror_index = 0
    /\ files = [n \in Ids |-> EmptyFile]
    /\ pc = "idle"
    /\ call = NoCall
    /\ dl = NoDl
    /\ outcome = "none"
    /\ request = <<>>
    /\ art = NoArt
    /\ event = NoEvent
    /\ switch = NoSwitch
    /\ adv_log = <<>>
    /\ catalog_fetch = [populated |-> TRUE, step |-> "none"]
    /\ resolved = NoResolve

\* direct resolver calls and the entry of download_plugin (lookup of the
\* root and resolution)
NextResolve ==
    \/ \E root \in Ids : Resolve(root)
    \/ \E plugin_name \in Ids, version \in PinnedVersions :
         download_plugin(plugin_name, version, plugins_data)

SpecResolve == InitResolve /\ [][NextResolve]_vars

\* ------------------------------------------- properties of the resolver
\* the catalog has an edge a -> b (required: the edge is not optional)
HasEdge(data, a, b, required) ==
    /\ a \in DOMAIN data
    /\ "dependencies" \in DOMAIN data[a]
    /\ \E k \in DOMAIN data[a].dependencies :
          LET d == data[a].dependencies[k]
          IN /\ d.name = b
             /\ required => ("optional" \notin DOMAIN d \/ d.optional = FALSE)

RECURSIVE EdgeClosure(_, _, _)
EdgeClosure(data, S, required) ==
    LET T == S \cup {b \in Ids : \E a \in S : HasEdge(data, a, b, required)}
    IN IF T = S THEN S ELSE EdgeClosure(data, T, required)

\* identifiers reachable from root by a path of one or more edges
Reachable(data, root, required) ==
    EdgeClosure(data, {b \in Ids : HasEdge(data, root, b, required)}, required)

Acyclic(data) == \A n \in Ids : n \notin Reachable(data, n, FALSE)

DuplicateFree(list) == \A i, j \in DOMAIN list : list[i] = list[j] => i = j

\* C1: on a catalog where root lies on a cycle of non-optional edges,
\* resolve(root) returns a result, and the result contains every direct
\* required dependency of root.
C1_CycleResolves ==
    (resolved.root # None /\ resolved.root \in Reachable(plugins_data, resolved.root, TRUE))
    => /\ ~resolved.err
       /\ {b \in Ids : HasEdge(plugins_data, resolved.root, b, TRUE)} \subseteq Range(resolved.val)

\* C2: on a catalog without cycles, resolve(root) of a listed root returns a
\* duplicate-free list whose values are exactly the identifiers reachable
\* from root through non-optional edges, the root not among them.
C2_AcyclicResolve ==
    (resolved.root \in DOMAIN plugins_data /\ Acyclic(plugins_data))
    => /\ ~resolved.err
       /\ DuplicateFree(resolved.val)
       /\ Range(resolved.val) = Reachable(plugins_data, resolved.root, TRUE)
       /\ resolved.root \notin Range(resolved.val)

\* resolve(root) on an acyclic catalog returned a non-empty list while some
\* plugin is reachable from root through an optional edge only
C2_Witness ==
    /\ resolved.root \in DOMAIN plugins_data
    /\ Acyclic(plugins_data)
    /\ Len(resolved.val) >= 1
    /\ \E c \in Ids : /\ c \in Reachable(plugins_data, resolved.root, FALSE)
                      /\ c \notin Range(resolved.val)

\* ----------------------------------- properties of engine and orchestrator
\* C3: whenever a _try_next_mirror call of a step returned false, on the
\* speed path or on the failure path, the fetch ends there with the
\* all-mirrors-failed error and the identifier is not in DownloadedSet.
C3_ExhaustionEndsFetch ==
    (\E k \in DOMAIN switch.calls : ~switch.calls[k].ret)
    => /\ event.result = "exhausted"
       /\ pc = "idle"
       /\ outcome = "DownloadError"
       /\ event.name \notin downloaded_plugins

\* C4: when a response without content-length header ends normally, the
\* fetch is completed and the identifier is in DownloadedSet.
C4_NoLengthEndCompletes ==
    (event.kind = "end" /\ dl.content_length = <<>>)
    => /\ event.result = "completed"
       /\ dl.plugin_name \in downloaded_plugins

\* C5: _try_next_mirror returns false exactly when the new index is the
\* index at which the fetch of the artifact in flight began, and a fetch
\* ends exhausted only after every mirror has been attempted for it.
C5_ExhaustionRelativeToStart ==
    /\ \A k \in DOMAIN switch.calls :
          switch.calls[k].ret = (switch.calls[k].new # art.start_index)
    /\ event.result = "exhausted" => art.tried = 0 .. (NumMirrors - 1)

\* C6: the mirror index stays in 0..3, and four consecutive _try_next_mirror
\* calls that start at index 0 return true, true, true, false and move the
\* index to 1, 2, 3, 0.
C6_AdvanceSequence ==
    /\ current_mirror_index \in 0 .. 3
    /\ (Len(adv_log) = 4 /\ adv_log[1].old = 0)
       => /\ [k \in 1 .. 4 |-> adv_log[k].ret] = <<TRUE, TRUE, TRUE, FALSE>>
          /\ [k \in 1 .. 4 |-> adv_log[k].new] = <<1, 2, 3, 0>>

\* four _try_next_mirror calls in a row, the first from index 0
C6_Witness ==
    /\ Len(adv_log) = 4
    /\ adv_log[1].old = 0
    /\ current_mirror_index = 0

\* C7: a step that finds the transfer too slow calls _try_next_mirror exactly
\* once; if it returned true the next attempt is pending against the next
\* mirror and the artifact is not completed; every attempt starts with an
\* empty file and a byte counter of 0, and the file never holds bytes of an
\* earlier attempt.
C7_SlowSwitchesOnce ==
    /\ event.kind = "slow"
       => /\ Len(switch.calls) = 1
          /\ switch.calls[1].ret
             => /\ pc = "request"
                /\ event.name \notin downloaded_plugins
                /\ current_mirror_index = (switch.calls[1].old + 1) % NumMirrors
    /\ event.kind = "response"
       => /\ files[dl.plugin_name] = EmptyFile
          /\ dl.downloaded_size = 0
    /\ \A n \in Ids : files[n].old = 0

\* C8: DownloadedSet only grows, and an identifier is added only by a step
\* that ends an attempt for it with the bytes written equal to the declared
\* content length, or with no declared length and a normal end of stream;
\* not by a step that aborted the attempt for slowness or failure.
C8_AddedOnlyWhenComplete ==
    [][ /\ downloaded_plugins \subseteq downloaded_plugins'
        /\ \A n \in downloaded_plugins' \ downloaded_plugins :
              /\ n = dl'.plugin_name
              /\ \/ /\ dl'.content_length # <<>>
                    /\ dl'.downloaded_size = ContentLength(dl'.content_length)
                 \/ /\ dl'.content_length = <<>>
                    /\ event'.kind = "end"
              /\ event'.kind \notin {"slow", "hard", "error"} ]_vars

\* the fetch of the root of the running call has started
RootFetchStarted == call.plugin_name \in Range(call.fetched)

\* C9: from the start of the fetch of the root on, every identifier of
\* resolve(root) is in DownloadedSet.
C9_RootAfterDependencies ==
    RootFetchStarted
    => Reachable(plugins_data, call.plugin_name, TRUE) \subseteq downloaded_plugins

\* the root is streaming after two dependencies were fetched in the same call
C9_Witness ==
    /\ pc = "stream"
    /\ dl.plugin_name = call.plugin_name
    /\ Len(call.fetched) = 3

\* C10: a download_plugin call fetches only identifiers of resolve(root) and the root that
\* were not in DownloadedSet when it began, none of them twice, the root
\* last; a successful call has fetched all of them.
C10_FetchesExactlyClosure ==
    LET wanted == (Reachable(plugins_data, call.plugin_name, TRUE)
                     \cup {call.plugin_name}) \ call.before
    IN call.phase # "single"
       => /\ Range(call.fetched) \subseteq wanted
          /\ DuplicateFree(call.fetched)
          /\ RootFetchStarted => call.fetched[Len(call.fetched)] = call.plugin_name
          /\ (outcome = "ok" /\ pc = "idle") => Range(call.fetched) = wanted

\* the end-to-end scenario: A requested, B then A fetched, C never
C10_Witness ==
    /\ outcome = "ok"
    /\ pc = "idle"
    /\ plugins_data = CatalogE2E
    /\ call.fetched = <<"B", "A">>
    /\ downloaded_plugins = {"A", "B"}

\* C11: every step of a call that repeats the previous, successful call for
\* the same root (with any version argument) issues no artifact request and no
\* catalog fetch, writes no file, leaves DownloadedSet and the mirror index
\* unchanged, and the call returns normally; so does _download_single_plugin
\* called for an identifier of DownloadedSet.
C11_SecondCallNoOp ==
    [][ /\ call'.repeat
           => /\ UNCHANGED <<plugins_data, downloaded_plugins, current_mirror_index, files>>
              /\ request' = <<>>
              /\ catalog_fetch'.step = "none"
              /\ pc' \in {"deps", "idle"}
              /\ pc' = "idle" => outcome' = "ok"
        /\ (call'.phase = "single" /\ event'.name \in downloaded_plugins)
           => /\ UNCHANGED <<plugins_data, downloaded_plugins, current_mirror_index, files>>
              /\ request' = <<>>
              /\ catalog_fetch'.step = "none"
              /\ pc' = "idle" ]_vars

\* a repeated call with a pinned version, for a root with dependencies, has
\* returned
C11_Witness ==
    /\ call.repeat
    /\ pc = "idle"
    /\ outcome = "ok"
    /\ Len(call.dependencies) >= 1
    /\ call.pinned # None

\* C12: download_plugin for a root that the populated catalog does not list
\* raises the not-found error in its first step: no artifact request, no file
\* written, catalog, DownloadedSet and mirror index unchanged.
C12_AbsentRootNoWork ==
    [][ ( /\ pc = "idle"
          /\ DOMAIN plugins_data # {}
          /\ event'.kind = "call"
          /\ event'.name \notin DOMAIN plugins_data )
        => /\ outcome' = "ValueError"
           /\ pc' = "idle"
           /\ request' = <<>>
           /\ art'.attempts = 0
           /\ call'.fetched = <<>>
           /\ UNCHANGED <<plugins_data, downloaded_plugins, current_mirror_index, files>>
      ]_vars

\* the not-found error in a process that has downloaded plugins and switched
\* mirrors before
C12_Witness ==
    /\ event.kind = "call"
    /\ event.name \notin DOMAIN plugins_data
    /\ outcome = "ValueError"
    /\ downloaded_plugins # {}
    /\ current_mirror_index # 0

\* C13: resolve of an identifier the catalog does not list returns the empty
\* list; resolve of a listed root whose direct required dependencies are all
\* unlisted returns exactly those dependencies and does not fail; a
\* download_plugin call for an unlisted root ends with the not-found error.
C13_AbsentDependencyIsLeaf ==
    LET direct == {b \in Ids : HasEdge(plugins_data, resolved.root, b, TRUE)}
    IN /\ (resolved.root # None /\ resolved.root \notin DOMAIN plugins_data)
          => (~resolved.err /\ resolved.val = <<>>)
       /\ ( /\ resolved.root \in DOMAIN plugins_data
            /\ direct \cap DOMAIN plugins_data = {} )
          => /\ ~resolved.err
             /\ DuplicateFree(resolved.val)
             /\ Range(resolved.val) = direct
       /\ (event.kind = "call" /\ event.name \notin DOMAIN plugins_data)
          => (outcome = "ValueError" /\ pc = "idle")

\* resolve of a listed root returned its two unlisted required dependencies,
\* and a download_plugin call for one of them raised the not-found error
C13_Witness ==
    /\ resolved.root \in DOMAIN plugins_data
    /\ Cardinality(Range(resolved.val)) = 2
    /\ Range(resolved.val) \cap DOMAIN plugins_data = {}
    /\ event.kind = "call"
    /\ event.name \in Range(resolved.val)
    /\ outcome = "ValueError"

\* C14: with a populated catalog, a download_plugin call that has ended
\* returned normally or raised the not-found error or the all-mirrors-failed
\* error, and nothing else; in particular when resolve(root) returned a list
\* that holds an identifier the catalog does not list. (Calls whose
\* resolution does not return are the subject of C1.)
C14_OnlyDeclaredFailures ==
    ( /\ pc = "idle"
      /\ event.kind # "none"
      /\ call.phase # "single"
      /\ DOMAIN plugins_data # {}
      /\ \A r \in get_plugin_dependencies(plugins_data, call.plugin_name, 1) : ~r.err )
    => outcome \in {"ok", "ValueError", "DownloadError"}

\* C15: within the fetch of one artifact no mirror is requested a second
\* time, so the fetch makes at most as many streaming attempts as there are
\* mirrors.
C15_EachMirrorOnce ==
    /\ art.attempts = Cardinality(art.tried)
    /\ art.attempts <= NumMirrors

\* C16 as stated: in every state, every identifier of DownloadedSet has its
\* whole non-optional transitive closure in DownloadedSet.
C16_DownloadedSetClosed ==
    \A n \in downloaded_plugins :
        Reachable(plugins_data, n, TRUE) \subseteq downloaded_plugins

\* C16 amended: DownloadedSet never shrinks; when download_plugin adds its
\* root, the root's whole non-optional closure is in DownloadedSet already;
\* after a call that returned normally the root and its closure are in
\* DownloadedSet.
C16_RootClosed ==
    [][ /\ downloaded_plugins \subseteq downloaded_plugins'
        /\ ( /\ call.phase = "main"
             /\ call.plugin_name \in downloaded_plugins' \ downloaded_plugins )
           => Reachable(plugins_data, call.plugin_name, TRUE) \subseteq downloaded_plugins
        /\ (pc' = "idle" /\ outcome' = "ok" /\ call'.phase = "done")
           => (Reachable(plugins_data', call'.plugin_name, TRUE) \cup {call'.plugin_name})
                 \subseteq downloaded_plugins'
      ]_vars

\* a call for A on the chain A -> B -> C returned normally after fetching B
\* before B's own dependency C
C16_Witness ==
    /\ pc = "idle"
    /\ outcome = "ok"
    /\ call.phase = "done"
    /\ plugins_data = CatalogChain
    /\ call.fetched = <<"B", "C", "A">>
    /\ downloaded_plugins = {"A", "B", "C"}

\* C17: every artifact request of a download_plugin call names the artifact
\* being fetched and the current mirror; for the root it asks for the version
\* argument of the call if one was given and for the catalog's version of the
\* root otherwise; for a dependency it asks for the catalog's version of that
\* dependency; a further request for the same artifact asks for the same
\* version.
C17_RequestedVersion ==
    [][ art'.attempts = art.attempts + 1
        => LET n == dl'.plugin_name
               latest == plugins_data[n].version
               wanted == IF call'.phase = "main" /\ call'.pinned # None
                         THEN call'.pinned
                         ELSE latest
           IN /\ call'.phase \in {"deps", "main"}
              /\ call'.phase = "main" <=> n = call'.plugin_name
              /\ request' = <<MIRROR_URLS[current_mirror_index + 1], n, wanted, n, ".hpi">>
              /\ art.attempts >= 1 => request'[3] = request[3]
      ]_vars

\* a dependency is requested again, from another mirror, in a call that
\* pins the version of its root
C17_Witness ==
    /\ pc = "stream"
    /\ call.phase = "deps"
    /\ call.pinned # None
    /\ art.attempts >= 2
    /\ current_mirror_index # art.start_index
    /\ request[3] = LatestVersion[dl.plugin_name]

\* C18: the mirror index is 0 at first; a step changes it only on the speed
\* path or the failure path of a fetch, through _try_next_mirror calls that
\* each move it to the next mirror modulo the number of mirrors; the entry
\* of download_plugin with its resolution, the entry of the engine (a no-op
\* for a downloaded identifier included), a response, a chunk in time and
\* the end of a stream leave it unchanged; a fetch starts at the index the
\* previous one left.
C18_IndexChangesOnlyOnAdvance ==
    /\ current_mirror_index = 0
    /\ [][ /\ current_mirror_index' # current_mirror_index
              => /\ pc \in {"request", "stream"}
                 /\ event'.kind \in {"slow", "hard", "error"}
                 /\ switch'.cause \in {"speed", "hard"}
                 /\ switch'.calls # <<>>
                 /\ switch'.calls[1].old = current_mirror_index
                 /\ switch'.calls[Len(switch'.calls)].new = current_mirror_index'
                 /\ \A k \in DOMAIN switch'.calls :
                       /\ switch'.calls[k].new = (switch'.calls[k].old + 1) % NumMirrors
                       /\ k > 1 => switch'.calls[k].old = switch'.calls[k - 1].new
           /\ event'.kind \in {"call", "enter", "skip", "response", "chunk", "end"}
              => current_mirror_index' = current_mirror_index
           /\ event'.result = "started"
              => art'.start_index = current_mirror_index
         ]_vars

\* after a fetch that switched mirrors, the next artifact of the same call
\* starts at the mirror the previous one ended on, and a no-op call leaves
\* the index there
C18_Witness ==
    /\ current_mirror_index = 2
    /\ art.start_index = 2
    /\ event.result = "started"
    /\ downloaded_plugins # {}
    /\ call.phase = "main"

\* C19: once a catalog fetch has succeeded, no step issues a catalog fetch
\* and no step changes the catalog.
C19_SingleCatalogFetch ==
    [][ catalog_fetch.populated
        => /\ catalog_fetch'.step = "none"
           /\ plugins_data' = plugins_data ]_vars
====
